---- MODULE Spec2Model ----
(***************************************************************************)
(* The two HTTP services of rerank_instructorxl:                           *)
(*   instructor/app_instructor.py  GET /healthz, POST /embed               *)
(*   reranker/app_reranker.py      GET /healthz, POST /rerank              *)
(* One behaviour is one process running one of the two app modules: the    *)
(* module-level statements (device selection, model load, route            *)
(* registration) run once, then request handlers run concurrently on the   *)
(* web server's worker threads, each with its own locals.                  *)
(***************************************************************************)
EXTENDS Integers, Sequences, FiniteSets

VARIABLES
    service,   \* which app module this process runs
    pc,        \* position of the module-level code
    cuda,      \* the hardware runtime's answer to torch.cuda.is_available()
    device,    \* module global `device`
    model,     \* module global `model`
    cudaAtBoot,\* history: what the hardware runtime answered at startup
    rpc,       \* per request: position of its handling
    path,      \* per request: the route it was sent to
    body,      \* per request: the JSON body as sent
    req,       \* per request: the validated request object (handler argument)
    pairs,     \* per request: handler local `pairs`
    resp,      \* per request: the HTTP response
    calls      \* per request, history: the model calls made, with their arguments

vars == <<service, pc, cuda, device, model, cudaAtBoot,
          rpc, path, body, req, pairs, resp, calls>>

----------------------------------------------------------------------------
(* Bounds of the model *)

MaxLen == 3     \* longest texts / candidates list sent
MaxBatch == 2   \* largest explicit batch_size sent
Scale == 100    \* fixed-point resolution of a float: 1.0 is Scale

(* Program constants *)

DefaultBatchSize == 32
MinBatchSize == 1
DefaultInstruction == "Represent the document for retrieval: "
DefaultNormalize == TRUE

Services == {"instructor", "reranker"}
Requests == {1, 2}   \* request slots: two requests in flight at once
Strings == {"a", "bb"}
OtherInstruction == "Represent the question: "
Query == "q"

----------------------------------------------------------------------------
(* JSON bodies.  A field of the body is absent, null, or holds a value.    *)

Absent(zero) == [tag |-> "absent", val |-> zero]
Null(zero) == [tag |-> "null", val |-> zero]
Val(v) == [tag |-> "val", val |-> v]

(* The bodies clients send.  Lists hold up to MaxLen strings that         *)
(* alternate, starting with either; an /embed body sets at most one of its *)
(* optional fields, or all three.                                          *)

Alternating(first, second, n) ==
    [i \in 1 .. n |-> IF i % 2 = 1 THEN first ELSE second]

Lists ==
    {<<>>} \cup {Alternating("a", "bb", n) : n \in 1 .. MaxLen}
           \cup {Alternating("bb", "a", n) : n \in 1 .. MaxLen}

ListFields == {Absent(<<>>), Null(<<>>)} \cup {Val(l) : l \in Lists}

BatchFields ==
    {Absent(0), Null(0)} \cup {Val(n) : n \in 0 .. MaxBatch}

EmbedOptions ==
    LET unset == [instruction |-> Absent(""), normalize |-> Absent(FALSE),
                  batch_size |-> Absent(0)]
    IN {unset}
        \cup {[unset EXCEPT !.instruction = Val(OtherInstruction)]}
        \cup {[unset EXCEPT !.normalize = Val(n)] : n \in BOOLEAN}
        \cup {[unset EXCEPT !.batch_size = f] : f \in BatchFields}
        \cup {[instruction |-> Val(OtherInstruction), normalize |-> Val(FALSE),
               batch_size |-> Val(1)]}

EmbedBodies ==
    {[instruction |-> o.instruction, texts |-> t, normalize |-> o.normalize,
      batch_size |-> o.batch_size] : o \in EmbedOptions, t \in ListFields}

RerankBodies ==
    [query      : {Absent(""), Val(Query)},
     candidates : ListFields,
     batch_size : BatchFields]

NoBody == [none |-> TRUE]
NoReq == [none |-> TRUE]

----------------------------------------------------------------------------
(* Schemas: pydantic validation of a body against the request class.  A   *)
(* field without a default is required; null is a value only of an         *)
(* Optional field.                                                         *)

\* Variant: the bound written ge=0.
BatchSizeValidFromZero(f) ==
    \/ f.tag = "absent"
    \/ f.tag = "null"
    \/ f.tag = "val" /\ f.val >= 0

\* Field(default=32, ge=1) on Optional[int]: None is a member of the type,
\* the bound applies to integers only.
BatchSizeValid(f) ==
    \/ f.tag = "absent"
    \/ f.tag = "null"
    \/ f.tag = "val" /\ f.val >= MinBatchSize

BatchSizeParsed(f) ==
    IF f.tag = "absent" THEN Val(DefaultBatchSize) ELSE f

EmbedValid(b) ==
    /\ b.instruction.tag \in {"absent", "val"}
    /\ b.texts.tag = "val"
    /\ b.normalize.tag \in {"absent", "val"}
    /\ BatchSizeValid(b.batch_size)

EmbedRequest(b) ==
    [instruction |-> IF b.instruction.tag = "absent"
                     THEN DefaultInstruction ELSE b.instruction.val,
     texts       |-> b.texts.val,
     normalize   |-> IF b.normalize.tag = "absent"
                     THEN DefaultNormalize ELSE b.normalize.val,
     batch_size  |-> BatchSizeParsed(b.batch_size)]

RerankValid(b) ==
    /\ b.query.tag = "val"
    /\ b.candidates.tag = "val"
    /\ BatchSizeValid(b.batch_size)

RerankRequest(b) ==
    [query      |-> b.query.val,
     candidates |-> b.candidates.val,
     batch_size |-> BatchSizeParsed(b.batch_size)]

----------------------------------------------------------------------------
(* The loaded models.  The pretrained weights are a fixed function from a  *)
(* pair of strings to a vector (embedding model) or a number (cross        *)
(* encoder); a float x is held as the integer x * Scale.                   *)

StrCode(s) ==
    CASE s = "a" -> 1
      [] s = "bb" -> 2
      [] s = Query -> 3
      [] s = DefaultInstruction -> 1
      [] s = OtherInstruction -> 2
      [] OTHER -> 0

\* The transformer's pooled output for one [instruction, text] pair.
Forward(pair) ==
    <<3 * StrCode(pair[2]) - 4, StrCode(pair[1]) + StrCode(pair[2])>>

\* The cross-encoder's logit for one (query, candidate) pair.
Logit(pair) == 7 * StrCode(pair[2]) - 3 * StrCode(pair[1])

\* The largest k in lo .. hi with k * k <= n, by bisection.
RECURSIVE ISqrtFrom(_, _, _)
ISqrtFrom(n, lo, hi) ==
    IF lo = hi THEN lo
    ELSE LET mid == (lo + hi + 1) \div 2
         IN IF mid * mid <= n THEN ISqrtFrom(n, mid, hi)
            ELSE ISqrtFrom(n, lo, mid - 1)

\* floor(sqrt(n)) for 0 <= n <= Scale * Scale
ISqrt(n) == ISqrtFrom(n, 0, Scale)

Abs(x) == IF x < 0 THEN 0 - x ELSE x
Sign(x) == IF x < 0 THEN 0 - 1 ELSE 1

SumSq(v) == v[1] * v[1] + v[2] * v[2]

\* x / max(||v||, eps), held in fixed point.
L2Normalize(v) ==
    [i \in 1 .. Len(v) |->
        IF SumSq(v) = 0 THEN 0
        ELSE Sign(v[i]) * ISqrt((v[i] * v[i] * Scale * Scale) \div SumSq(v))]

ToFixed(v) == [i \in 1 .. Len(v) |-> v[i] * Scale]

EncodeBatch(batch, normalize) ==
    [i \in 1 .. Len(batch) |->
        IF normalize THEN L2Normalize(Forward(batch[i]))
        ELSE ToFixed(Forward(batch[i]))]

Min(a, b) == IF a < b THEN a ELSE b

\* SentenceTransformer.encode: the inputs are cut into consecutive batches
\* of batch_size, each batch is run through the model, the outputs are
\* concatenated.
RECURSIVE EncodeFrom(_, _, _, _)
EncodeFrom(ps, start, normalize, bs) ==
    IF start > Len(ps) THEN <<>>
    ELSE EncodeBatch(SubSeq(ps, start, Min(start + bs - 1, Len(ps))), normalize)
            \o EncodeFrom(ps, start + bs, normalize, bs)

Encode(args) == EncodeFrom(args.pairs, 1, args.normalize, args.batch_size.val)

PredictBatch(batch) == [i \in 1 .. Len(batch) |-> Logit(batch[i]) * Scale]

\* CrossEncoder.predict: the same batching over (query, candidate) pairs.
RECURSIVE PredictFrom(_, _, _)
PredictFrom(ps, start, bs) ==
    IF start > Len(ps) THEN <<>>
    ELSE PredictBatch(SubSeq(ps, start, Min(start + bs - 1, Len(ps))))
            \o PredictFrom(ps, start + bs, bs)

Predict(args) == PredictFrom(args.pairs, 1, args.batch_size.val)

\* A batch_size that is None or not positive cannot step the library's
\* batching loop: the call raises.
CallMustRaise(args) ==
    \/ args.batch_size.tag # "val"
    \/ args.batch_size.val < 1

----------------------------------------------------------------------------
(* Handlers' expressions *)

\* Variant: the pairs built back to front.
EmbedPairsReversed(rq) ==
    [i \in 1 .. Len(rq.texts) |->
        <<rq.instruction, rq.texts[Len(rq.texts) + 1 - i]>>]

\* pairs = [[req.instruction, t] for t in req.texts]
EmbedPairs(rq) ==
    [i \in 1 .. Len(rq.texts) |-> <<rq.instruction, rq.texts[i]>>]

\* Variant: the tuple written (c, req.query).
RerankPairsSwapped(rq) ==
    [i \in 1 .. Len(rq.candidates) |-> <<rq.candidates[i], rq.query>>]

\* pairs = [(req.query, c) for c in req.candidates]
RerankPairs(rq) ==
    [i \in 1 .. Len(rq.candidates) |-> <<rq.query, rq.candidates[i]>>]

\* Variant: normalize_embeddings left out of the call (the library's default
\* is False).
EncodeArgsNoNormalize(rq, ps) ==
    [pairs |-> ps, normalize |-> FALSE, batch_size |-> rq.batch_size]

\* model.encode(pairs, convert_to_numpy=True,
\*              normalize_embeddings=req.normalize, batch_size=req.batch_size,
\*              show_progress_bar=False)
EncodeArgs(rq, ps) ==
    [pairs |-> ps, normalize |-> rq.normalize, batch_size |-> rq.batch_size]

\* Variant: the handler passes only the first batch_size pairs.
PredictArgsOneBatch(rq, ps) ==
    [pairs |-> SubSeq(ps, 1, Min(rq.batch_size.val, Len(ps))),
     normalize |-> FALSE, batch_size |-> rq.batch_size]

\* model.predict(pairs, batch_size=req.batch_size)
PredictArgs(rq, ps) ==
    [pairs |-> ps, normalize |-> FALSE, batch_size |-> rq.batch_size]

(* Responses *)

NoResp == [status |-> 0, kind |-> "none", data |-> <<>>, device |-> ""]

\* EmbedResponse(embeddings=embs)
EmbedResponse(embs) ==
    [status |-> 200, kind |-> "embeddings", data |-> embs, device |-> ""]

\* RerankResponse(scores=scores)
RerankResponse(scores) ==
    [status |-> 200, kind |-> "scores", data |-> scores, device |-> ""]

\* {"status": "ok", "device": device}
HealthResponse(d) ==
    [status |-> 200, kind |-> "ok", data |-> <<>>, device |-> d]

\* Request validation error raised by the framework before the handler.
ValidationError ==
    [status |-> 422, kind |-> "error", data |-> <<>>, device |-> ""]

\* An exception escaping the handler.
ServerError ==
    [status |-> 500, kind |-> "error", data |-> <<>>, device |-> ""]

----------------------------------------------------------------------------
(* Module-level code: runs once, in order, when the server imports the app *)

Init ==
    /\ service \in Services
    /\ pc = "device"
    /\ cuda \in BOOLEAN
    /\ device = "unset"
    /\ model = "unloaded"
    /\ cudaAtBoot = FALSE
    /\ rpc = [r \in Requests |-> "idle"]
    /\ path = [r \in Requests |-> ""]
    /\ body = [r \in Requests |-> NoBody]
    /\ req = [r \in Requests |-> NoReq]
    /\ pairs = [r \in Requests |-> <<>>]
    /\ resp = [r \in Requests |-> NoResp]
    /\ calls = [r \in Requests |-> <<>>]

reqVars == <<rpc, path, body, req, pairs, resp, calls>>

\* device = "cuda" if torch.cuda.is_available() else "cpu"
ChooseDevice(available) == IF available THEN "cuda" ELSE "cpu"

SelectDevice ==
    /\ pc = "device"
    /\ device' = ChooseDevice(cuda)
    /\ cudaAtBoot' = cuda
    /\ pc' = "load"
    /\ UNCHANGED <<service, cuda, model>>
    /\ UNCHANGED reqVars

\* Variant: the constructor's exception is caught and the import goes on.
AfterLoadErrorSwallowed == "routes"

\* Where the module-level code stands after the model constructor raised:
\* the import fails and the process never serves.
AfterLoadError == "crashed"

\* model = SentenceTransformer(path, device=device)
\* model = CrossEncoder(path, device=device)
LoadModel ==
    /\ pc = "load"
    /\ \/ /\ model' = "loaded"
          /\ pc' = "routes"
       \/ /\ model' = model
          /\ pc' = AfterLoadError
    /\ UNCHANGED <<service, cuda, device, cudaAtBoot>>
    /\ UNCHANGED reqVars

Routes(svc) ==
    IF svc = "instructor" THEN {"/healthz", "/embed"}
    ELSE {"/healthz", "/rerank"}

\* @app.get("/healthz"), @app.post(...): the import completes and the
\* server starts to accept requests.
RegisterRoutes ==
    /\ pc = "routes"
    /\ pc' = "serving"
    /\ UNCHANGED <<service, cuda, device, model, cudaAtBoot>>
    /\ UNCHANGED reqVars

\* The hardware runtime: an accelerator may come or go while the process
\* runs.
CudaChange ==
    /\ cuda' = ~cuda
    /\ UNCHANGED <<service, pc, device, model, cudaAtBoot>>
    /\ UNCHANGED reqVars

procVars == <<service, pc, cuda, device, model, cudaAtBoot>>

----------------------------------------------------------------------------
(* Requests *)

Bodies(p) ==
    CASE p = "/embed" -> EmbedBodies
      [] p = "/rerank" -> RerankBodies
      [] OTHER -> {NoBody}

Arrive(r, p, b) ==
    /\ pc = "serving"
    /\ rpc[r] = "idle"
    /\ path' = [path EXCEPT ![r] = p]
    /\ body' = [body EXCEPT ![r] = b]
    /\ rpc' = [rpc EXCEPT ![r] = "received"]
    /\ UNCHANGED procVars
    /\ UNCHANGED <<req, pairs, resp, calls>>

\* A client sends a request to a registered route of the serving process,
\* whatever else the process is handling.
Receive(r) ==
    \E p \in Routes(service) : \E b \in Bodies(p) : Arrive(r, p, b)

\* Variant: healthz asks the hardware runtime again.
HealthDeviceProbed == ChooseDevice(cuda)

\* The device healthz reports: the module global.
HealthDevice == device

\* def healthz(): return {"status": "ok", "device": device}
Healthz(r) ==
    /\ rpc[r] = "received"
    /\ path[r] = "/healthz"
    /\ resp' = [resp EXCEPT ![r] = HealthResponse(HealthDevice)]
    /\ rpc' = [rpc EXCEPT ![r] = "done"]
    /\ UNCHANGED procVars
    /\ UNCHANGED <<path, body, req, pairs, calls>>

Valid(p, b) == IF p = "/embed" THEN EmbedValid(b) ELSE RerankValid(b)

Parsed(p, b) == IF p = "/embed" THEN EmbedRequest(b) ELSE RerankRequest(b)

\* The framework builds the handler's `req` argument from the body, or
\* answers with a validation error without calling the handler.
Validate(r) ==
    /\ rpc[r] = "received"
    /\ path[r] # "/healthz"
    /\ IF Valid(path[r], body[r])
       THEN /\ req' = [req EXCEPT ![r] = Parsed(path[r], body[r])]
            /\ rpc' = [rpc EXCEPT ![r] = "handler"]
            /\ resp' = resp
       ELSE /\ resp' = [resp EXCEPT ![r] = ValidationError]
            /\ rpc' = [rpc EXCEPT ![r] = "done"]
            /\ req' = req
    /\ UNCHANGED procVars
    /\ UNCHANGED <<path, body, pairs, calls>>

HandlerPairs(p, rq) == IF p = "/embed" THEN EmbedPairs(rq) ELSE RerankPairs(rq)

\* First statement of embed / rerank: the local `pairs`.
BuildPairs(r) ==
    /\ rpc[r] = "handler"
    /\ pairs' = [pairs EXCEPT ![r] = HandlerPairs(path[r], req[r])]
    /\ rpc' = [rpc EXCEPT ![r] = "call"]
    /\ UNCHANGED procVars
    /\ UNCHANGED <<path, body, req, resp, calls>>

\* Variant: `pairs` is a module global, holding what the latest handler to
\* build its pairs wrote.
PairsReadShared(r) ==
    LET others == {q \in Requests : q # r /\ rpc[q] = "call"}
    IN IF others = {} THEN pairs[r] ELSE pairs[CHOOSE q \in others : TRUE]

\* The `pairs` the model call of request r is given: the handler's own local.
PairsRead(r) == pairs[r]

CallArgs(r) ==
    IF path[r] = "/embed" THEN EncodeArgs(req[r], PairsRead(r))
    ELSE PredictArgs(req[r], PairsRead(r))

\* What the client gets when the model call raises: the exception leaves
\* the handler, nothing computed so far is returned.
OnModelError(p, args) == ServerError

\* return EmbedResponse(embeddings=embs) / RerankResponse(scores=scores)
OnModelResult(p, args) ==
    IF p = "/embed" THEN EmbedResponse(Encode(args))
    ELSE RerankResponse(Predict(args))

\* Variant: the handler loops back to the model call.
AfterModelErrorRetry == "call"

\* Where the handler stands after the model call raised: it has returned.
AfterModelError == "done"

\* Second and third statements of embed / rerank: one model call over all
\* pairs, then the response.  The call may raise (out of memory, a
\* batch_size it cannot use).
ModelCall(r) ==
    /\ rpc[r] = "call"
    /\ LET args == CallArgs(r)
       IN \/ /\ ~CallMustRaise(args)
             /\ calls' = [calls EXCEPT ![r] =
                            Append(@, [args |-> args, outcome |-> "ok"])]
             /\ resp' = [resp EXCEPT ![r] = OnModelResult(path[r], args)]
             /\ rpc' = [rpc EXCEPT ![r] = "done"]
          \/ /\ calls' = [calls EXCEPT ![r] =
                            Append(@, [args |-> args, outcome |-> "raise"])]
             /\ resp' = [resp EXCEPT ![r] = OnModelError(path[r], args)]
             /\ rpc' = [rpc EXCEPT ![r] = AfterModelError]
    /\ UNCHANGED procVars
    /\ UNCHANGED <<path, body, req, pairs>>

\* The response has been sent; the slot serves the next request.
Close(r) ==
    /\ rpc[r] = "done"
    /\ rpc' = [rpc EXCEPT ![r] = "idle"]
    /\ path' = [path EXCEPT ![r] = ""]
    /\ body' = [body EXCEPT ![r] = NoBody]
    /\ req' = [req EXCEPT ![r] = NoReq]
    /\ pairs' = [pairs EXCEPT ![r] = <<>>]
    /\ resp' = [resp EXCEPT ![r] = NoResp]
    /\ calls' = [calls EXCEPT ![r] = <<>>]
    /\ UNCHANGED procVars

Next ==
    \/ SelectDevice
    \/ LoadModel
    \/ RegisterRoutes
    \/ CudaChange
    \/ \E r \in Requests : Receive(r)
    \/ \E r \in Requests : Healthz(r)
    \/ \E r \in Requests : Validate(r)
    \/ \E r \in Requests : BuildPairs(r)
    \/ \E r \in Requests : ModelCall(r)
    \/ \E r \in Requests : Close(r)

\* Two clients, each sending any body at any time.
Spec == Init /\ [][Next]_vars

----------------------------------------------------------------------------
(* Properties *)

Done(r) == rpc[r] = "done"

Infers(r) == path[r] \in {"/embed", "/rerank"}

\* The instruction a body asks for.
SentInstruction(b) ==
    IF b.instruction.tag = "absent" THEN DefaultInstruction
    ELSE b.instruction.val

\* Whether a body asks for normalized vectors.
SentNormalize(b) == b.normalize.tag = "absent" \/ b.normalize.val

\* The model's encoding of one pair.
VectorOf(pair, normalize) ==
    IF normalize THEN L2Normalize(Forward(pair)) ELSE ToFixed(Forward(pair))

\* The list a body's inputs are in.
Inputs(p, b) == IF p = "/embed" THEN b.texts.val ELSE b.candidates.val

\* C1: every /embed request that passed validation and was answered with
\* embeddings got exactly one vector per text, the i-th being the model's
\* encoding of [instruction, texts[i]], with the default instruction when
\* the body has none; a validated request gets nothing but that or a
\* server error.
C1_EmbedInOrder ==
    \A r \in Requests :
        (Done(r) /\ path[r] = "/embed" /\ resp[r].status # 422) =>
            /\ resp[r].status \in {200, 500}
            /\ resp[r].status = 200 =>
                /\ resp[r].kind = "embeddings"
                /\ Len(resp[r].data) = Len(body[r].texts.val)
                /\ \A i \in 1 .. Len(body[r].texts.val) :
                    resp[r].data[i] =
                        VectorOf(<<SentInstruction(body[r]), body[r].texts.val[i]>>,
                                 SentNormalize(body[r]))

\* An answered /embed request of two or more texts, the first two different,
\* no instruction in the body, encoded in batches of one.
C1_Witness ==
    \E r \in Requests :
        /\ Done(r) /\ path[r] = "/embed" /\ resp[r].status = 200
        /\ body[r].instruction.tag = "absent"
        /\ Len(body[r].texts.val) >= 2
        /\ body[r].texts.val[1] # body[r].texts.val[2]
        /\ body[r].batch_size = Val(1)

\* C2: every /rerank request that passed validation and was answered with
\* scores got exactly one score per candidate, the i-th being the cross
\* encoder's score of (query, candidates[i]).
C2_RerankInOrder ==
    \A r \in Requests :
        (Done(r) /\ path[r] = "/rerank" /\ resp[r].status # 422) =>
            /\ resp[r].status \in {200, 500}
            /\ resp[r].status = 200 =>
                /\ resp[r].kind = "scores"
                /\ Len(resp[r].data) = Len(body[r].candidates.val)
                /\ \A i \in 1 .. Len(body[r].candidates.val) :
                    resp[r].data[i] =
                        Logit(<<body[r].query.val, body[r].candidates.val[i]>>) * Scale

\* An answered /rerank request of three candidates, neighbours different.
C2_Witness ==
    \E r \in Requests :
        /\ Done(r) /\ path[r] = "/rerank" /\ resp[r].status = 200
        /\ Len(body[r].candidates.val) = 3
        /\ body[r].candidates.val[1] # body[r].candidates.val[2]
        /\ body[r].candidates.val[2] # body[r].candidates.val[3]

\* A body the contract rejects: a required field missing, or a batch_size
\* below 1.
Rejectable(p, b) ==
    \/ p = "/embed" /\ b.texts.tag = "absent"
    \/ p = "/rerank" /\ (b.query.tag = "absent" \/ b.candidates.tag = "absent")
    \/ b.batch_size.tag = "val" /\ b.batch_size.val < 1

\* C3: a request with a required field missing or a batch_size below 1
\* never reaches the handler or the model, and its response is a client
\* error that carries no embeddings or scores.
C3_RejectedBeforeInference ==
    \A r \in Requests :
        (rpc[r] # "idle" /\ Infers(r) /\ Rejectable(path[r], body[r])) =>
            /\ rpc[r] \in {"received", "done"}
            /\ calls[r] = <<>>
            /\ Done(r) => resp[r] = ValidationError
            /\ resp[r].data = <<>>

\* A rejected request with batch_size 0 and every required field present.
C3_Witness ==
    \E r \in Requests :
        /\ Done(r) /\ path[r] = "/embed"
        /\ body[r].texts.tag = "val" /\ Len(body[r].texts.val) > 0
        /\ body[r].batch_size = Val(0)
        /\ resp[r].status = 422

\* C4: a request makes at most one model call; if that call raised the
\* request has ended in a server error with no results; and an answered
\* request that passed validation made exactly one call and carries either
\* one result per input or a server error with none.
C4_NoRetryNoPartial ==
    \A r \in Requests :
        /\ Len(calls[r]) <= 1
        /\ (calls[r] # <<>> /\ calls[r][1].outcome = "raise") =>
            /\ Done(r)
            /\ resp[r] = ServerError
        /\ (Done(r) /\ Infers(r) /\ resp[r].status # 422) =>
            /\ Len(calls[r]) = 1
            /\ \/ /\ resp[r].status = 200
                  /\ Len(resp[r].data) = Len(Inputs(path[r], body[r]))
               \/ /\ resp[r].status = 500
                  /\ resp[r].data = <<>>

\* A request with inputs and a usable batch_size whose model call raised.
C4_Witness ==
    \E r \in Requests :
        /\ Done(r) /\ Infers(r)
        /\ Len(calls[r]) = 1 /\ calls[r][1].outcome = "raise"
        /\ Len(calls[r][1].args.pairs) > 1
        /\ calls[r][1].args.batch_size = Val(1)
        /\ resp[r].status = 500

\* C5: the batch_size of every model call is an integer of at least 1, and
\* is 32 when the body has no batch_size.
C5_BatchSizePositive ==
    \A r \in Requests :
        \A i \in 1 .. Len(calls[r]) :
            /\ calls[r][i].args.batch_size.tag = "val"
            /\ calls[r][i].args.batch_size.val >= 1
            /\ body[r].batch_size.tag = "absent" =>
                calls[r][i].args.batch_size.val = 32

SameButBatchSize(b1, b2) ==
    [b1 EXCEPT !.batch_size = Absent(0)] = [b2 EXCEPT !.batch_size = Absent(0)]

UsableBatchSize(f) == f.tag = "absent" \/ (f.tag = "val" /\ f.val >= 1)

\* C6: two answered requests to the same endpoint whose bodies differ in
\* batch_size only (absent or at least 1) carry the same results, one per
\* input, in the same order.
C6_BatchSizeKeepsShape ==
    \A r1, r2 \in Requests :
        (/\ Done(r1) /\ Done(r2)
         /\ Infers(r1) /\ path[r1] = path[r2]
         /\ resp[r1].status = 200 /\ resp[r2].status = 200
         /\ UsableBatchSize(body[r1].batch_size)
         /\ UsableBatchSize(body[r2].batch_size)
         /\ SameButBatchSize(body[r1], body[r2])) =>
            /\ Len(resp[r1].data) = Len(Inputs(path[r1], body[r1]))
            /\ Len(resp[r2].data) = Len(resp[r1].data)
            /\ resp[r2].data = resp[r1].data

\* Two answered requests over the same list of two different inputs, one
\* in batches of one (smaller than the list), the other in one batch of
\* exactly the list's length.
C6_Witness ==
    \E r1, r2 \in Requests :
        /\ Done(r1) /\ Done(r2)
        /\ Infers(r1) /\ path[r1] = path[r2]
        /\ resp[r1].status = 200 /\ resp[r2].status = 200
        /\ SameButBatchSize(body[r1], body[r2])
        /\ Len(Inputs(path[r1], body[r1])) = 2
        /\ Inputs(path[r1], body[r1])[1] # Inputs(path[r1], body[r1])[2]
        /\ body[r1].batch_size = Val(1)
        /\ body[r2].batch_size = Val(Len(Inputs(path[r2], body[r2])))
        /\ Len(resp[r1].data) = 2

\* The response a body determines on its own.
OwnResponse(p, b) ==
    IF p = "/embed"
    THEN EmbedResponse([i \in 1 .. Len(b.texts.val) |->
            VectorOf(<<SentInstruction(b), b.texts.val[i]>>, SentNormalize(b))])
    ELSE RerankResponse([i \in 1 .. Len(b.candidates.val) |->
            Logit(<<b.query.val, b.candidates.val[i]>>) * Scale])

\* A step of one request's handling leaves every other request's state alone.
OthersUntouched(r) ==
    \A q \in Requests \ {r} :
        /\ rpc'[q] = rpc[q] /\ path'[q] = path[q] /\ body'[q] = body[q]
        /\ req'[q] = req[q] /\ pairs'[q] = pairs[q]
        /\ resp'[q] = resp[q] /\ calls'[q] = calls[q]

\* C7: while the process serves, no step writes `model` or `device`; a
\* step of one request changes nothing of another; and a successful
\* response is the one the request's own body determines, whatever else is
\* in flight.
C7_SharedModelReadOnly ==
    [][ /\ pc = "serving" => (model' = model /\ device' = device)
        /\ \A r \in Requests :
            rpc'[r] # rpc[r] =>
                /\ OthersUntouched(r)
                /\ (rpc'[r] = "done" /\ resp'[r].status = 200 /\ Infers(r)) =>
                    resp'[r] = OwnResponse(path[r], body[r]) ]_vars

\* A request answered with results while another, with other pairs, is
\* about to call the model.
C7_Witness ==
    \E r, q \in Requests :
        /\ r # q
        /\ Done(r) /\ Infers(r) /\ resp[r].status = 200
        /\ rpc[q] = "call"
        /\ pairs[q] # calls[r][1].args.pairs

\* The device the startup statement chose.
BootDevice == IF cudaAtBoot THEN "cuda" ELSE "cpu"

\* C8: once chosen, `device` is "cuda" if the accelerator was available at
\* startup and "cpu" otherwise, and every /healthz response is
\* {status: ok, device: that value}.
C8_DeviceFixedAtStartup ==
    /\ pc # "device" => device = BootDevice
    /\ \A r \in Requests :
        (Done(r) /\ path[r] = "/healthz") =>
            /\ resp[r].status = 200
            /\ resp[r].kind = "ok"
            /\ resp[r].device = BootDevice

\* A /healthz response given after the hardware's answer changed.
C8_Witness ==
    \E r \in Requests :
        /\ Done(r) /\ path[r] = "/healthz"
        /\ cuda # cudaAtBoot

NormTolerance == 3 * Scale

\* | ||v||^2 - 1 | within tolerance, in fixed point.
UnitNorm(v) ==
    /\ SumSq(v) <= Scale * Scale
    /\ Scale * Scale - SumSq(v) <= NormTolerance

\* C9: every vector of a successful /embed response whose body has
\* normalize true or absent has unit L2 norm within tolerance.
C9_NormalizedUnitNorm ==
    \A r \in Requests :
        (/\ Done(r) /\ path[r] = "/embed" /\ resp[r].status = 200
         /\ SentNormalize(body[r])) =>
            \A i \in 1 .. Len(resp[r].data) : UnitNorm(resp[r].data[i])

\* A successful /embed response with vectors, normalize absent from the body.
C9_Witness ==
    \E r \in Requests :
        /\ Done(r) /\ path[r] = "/embed" /\ resp[r].status = 200
        /\ body[r].normalize.tag = "absent"
        /\ Len(resp[r].data) > 1

\* C10: a request is handled, and a response exists, only in a process
\* that has chosen its device and loaded its model; a process whose model
\* failed to load handles none.
C10_LoadedBeforeServing ==
    /\ pc = "serving" => (model = "loaded" /\ device \in {"cuda", "cpu"})
    /\ pc # "serving" =>
        \A r \in Requests : rpc[r] = "idle" /\ resp[r] = NoResp
    /\ model # "loaded" => pc # "serving"

\* A /healthz response reporting ok.
C10_Witness ==
    \E r \in Requests :
        /\ Done(r) /\ path[r] = "/healthz" /\ resp[r].kind = "ok"
        /\ model = "loaded"

====
